---- MODULE Spec2Model ----
(***************************************************************************)
(* A model of licensepy's license header formatter (src/src/format.rs).    *)
(*                                                                         *)
(* Strings are TLA+ strings, used only through Len, SubSeq and \o, so the  *)
(* byte offsets of the program (insert_at, split_off, find) are offsets    *)
(* into the real text.  Offsets are 0-based as in the program; an          *)
(* Option<T> is a sequence of length 0 (None) or 1 (Some).                 *)
(***************************************************************************)
EXTENDS Integers, Sequences, FiniteSets

(***************************************************************************)
(* Bounds of the model.                                                    *)
(***************************************************************************)
\* a file of the single-file specification has at most MaxLines lines
MaxLines == 3
\* the formatter is run at most MaxPasses times in succession
MaxPasses == 2
\* the file list of the multi-file specification has at most MaxFiles entries
MaxFiles == 2

\* the lines of a header template
MaxTemplateLines == 2

\* the files of a long list
ManyFiles == 256

(***************************************************************************)
(* The string library: the std functions the program calls.                *)
(***************************************************************************)
None == <<>>

Some(x) == <<x>>

COMMENT == "#"

HASHBANG == "#!"

Ch(s, i) == SubSeq(s, i, i)

\* &s[..n]
Take(s, n) == SubSeq(s, 1, n)

\* &s[n..]
Drop(s, n) == SubSeq(s, n + 1, Len(s))

\* str::starts_with
StartsWith(s, p) == Len(p) <= Len(s) /\ Take(s, Len(p)) = p

\* str::ends_with
EndsWith(s, p) == Len(p) <= Len(s) /\ Drop(s, Len(s) - Len(p)) = p

\* char::is_whitespace, on the characters of the model
IsWhitespace(c) == c \in {" ", "\t", "\n", "\r"}

RECURSIVE TrimStart(_)
TrimStart(s) ==
    IF s # "" /\ IsWhitespace(Ch(s, 1)) THEN TrimStart(Drop(s, 1)) ELSE s

RECURSIVE TrimEnd(_)
TrimEnd(s) ==
    IF s # "" /\ IsWhitespace(Ch(s, Len(s))) THEN TrimEnd(Take(s, Len(s) - 1)) ELSE s

\* str::trim
Trim(s) == TrimEnd(TrimStart(s))

\* str::trim_start_matches(COMMENT): every leading '#' is removed
RECURSIVE TrimStartMatches(_, _)
TrimStartMatches(s, p) ==
    IF StartsWith(s, p) THEN TrimStartMatches(Drop(s, Len(p)), p) ELSE s

\* str::find: the 0-based offset of the first occurrence of pat, or -1
RECURSIVE FindFrom(_, _, _)
FindFrom(s, pat, i) ==
    IF i + Len(pat) > Len(s) THEN -1
    ELSE IF SubSeq(s, i + 1, i + Len(pat)) = pat THEN i
    ELSE FindFrom(s, pat, i + 1)

Find(s, pat) == FindFrom(s, pat, 0)

\* str::contains
Contains(s, pat) == Find(s, pat) # -1

\* str::replace: every non-overlapping occurrence, left to right
RECURSIVE Replace(_, _, _)
Replace(s, from, to) ==
    LET i == Find(s, from)
    IN  IF i = -1 THEN s
        ELSE Take(s, i) \o to \o Replace(Drop(s, i + Len(from)), from, to)

\* str::split(" "): an empty string gives one empty word, two adjacent
\* separators give an empty word between them
RECURSIVE Split(_, _)
Split(s, sep) ==
    LET i == Find(s, sep)
    IN  IF i = -1 THEN <<s>>
        ELSE <<Take(s, i)>> \o Split(Drop(s, i + Len(sep)), sep)

\* a line without its terminator: "\n", or "\r\n"
StripCR(l) == IF EndsWith(l, "\r") THEN Take(l, Len(l) - 1) ELSE l

\* str::lines and BufRead::lines: split at "\n", the "\r" of a "\r\n" goes
\* too, and a final line needs no terminator
RECURSIVE Lines(_)
Lines(s) ==
    LET i == Find(s, "\n")
    IN  IF s = "" THEN <<>>
        ELSE IF i = -1 THEN <<s>>
        ELSE <<StripCR(Take(s, i))>> \o Lines(Drop(s, i + 1))

\* slice::join
RECURSIVE Join(_, _)
Join(ss, sep) ==
    IF ss = <<>> THEN ""
    ELSE IF Len(ss) = 1 THEN ss[1]
    ELSE ss[1] \o sep \o Join(Tail(ss), sep)

\* Iterator::collect::<String>
RECURSIVE Concat(_)
Concat(ss) == IF ss = <<>> THEN "" ELSE ss[1] \o Concat(Tail(ss))

Digits == <<"0", "1", "2", "3", "4", "5", "6", "7", "8", "9">>

IsDigit(c) == \E d \in 1..10 : Digits[d] = c

DigitVal(c) == (CHOOSE d \in 1..10 : Digits[d] = c) - 1

RECURSIVE DecVal(_)
DecVal(w) ==
    IF w = "" THEN 0 ELSE 10 * DecVal(Take(w, Len(w) - 1)) + DigitVal(Ch(w, Len(w)))

\* the digits of a word after its optional sign
Unsigned(w) == IF StartsWith(w, "+") \/ StartsWith(w, "-") THEN Drop(w, 1) ELSE w

\* str::parse::<i64>().is_ok(): an optional sign, then one digit or more.
\* The value must also fit an i64; the numbers of the model have at most
\* nine digits (what the checker's integers hold), so they always fit.
ParsesI64(w) ==
    /\ Unsigned(w) # ""
    /\ \A i \in 1..Len(Unsigned(w)) : IsDigit(Ch(Unsigned(w), i))
    /\ Len(Unsigned(w)) <= 9

\* str::parse::<i64>(): Some(the number) for Ok, None for Err
ParseI64(w) ==
    IF ~ParsesI64(w) THEN None
    ELSE IF StartsWith(w, "-") THEN Some(0 - DecVal(Unsigned(w)))
    ELSE Some(DecVal(Unsigned(w)))

\* i64::to_string
RECURSIVE NatToString(_)
NatToString(n) ==
    IF n < 10 THEN Digits[n + 1] ELSE NatToString(n \div 10) \o Digits[(n % 10) + 1]

I64ToString(n) == IF n < 0 THEN "-" \o NatToString(0 - n) ELSE NatToString(n)

(***************************************************************************)
(* The pure functions of format.rs.  A Config is a record                  *)
(* [license_header_template : Option<String>, licensee : Option<String>,   *)
(*  license_year : i64]; the avoid list plays no part in the formatter.    *)
(***************************************************************************)

\* format_header, lines 479-489: each line of the header is trimmed and given
\* the prefix "# " unless it starts with '#', and ends with "\n"
CommentLine(line) ==
    IF ~StartsWith(Trim(line), COMMENT)
    THEN COMMENT \o " " \o Trim(line) \o "\n"
    ELSE Trim(line) \o "\n"

\* format_header, lines 465-476: the placeholders are replaced;
\* only called with a licensee when the template holds {licensee}
FillTemplate(config) ==
    LET template == config.license_header_template[1]
        header   == IF Contains(template, "{licensee}")
                    THEN Replace(template, "{licensee}", config.licensee[1])
                    ELSE template
    IN  Replace(header, "{year}", I64ToString(config.license_year))

\* a mutant of format_header: without a licensee the placeholder is left in
\* the header and the run goes on
format_headerKeepsPlaceholder(config) ==
    LET template == config.license_header_template[1]
        header   == IF config.licensee # None
                    THEN Replace(template, "{licensee}", config.licensee[1])
                    ELSE template
        lines    == Lines(Replace(header, "{year}", I64ToString(config.license_year)))
    IN  [exit   |-> FALSE,
         header |-> Concat([i \in 1..Len(lines) |-> CommentLine(lines[i])])]

\* format_header: [exit |-> TRUE] stands for exit(1) at line 471
format_header(config) ==
    IF /\ Contains(config.license_header_template[1], "{licensee}")
       /\ config.licensee = None
    THEN [exit |-> TRUE, header |-> ""]
    ELSE LET lines == Lines(FillTemplate(config))
         IN  [exit   |-> FALSE,
              header |-> Concat([i \in 1..Len(lines) |-> CommentLine(lines[i])])]

\* check_license, lines 192-198: the closure clean_header
CleanLine(line) == Trim(TrimStartMatches(line, COMMENT))

RECURSIVE CleanLines(_)
CleanLines(ls) == IF ls = <<>> THEN <<>> ELSE <<CleanLine(Head(ls))>> \o CleanLines(Tail(ls))

\* a mutant of clean_header: the filter that line 196 has as a comment
clean_headerOfNonEmptyLines(lines) ==
    SelectSeq(CleanLines(Lines(lines)), LAMBDA line : line # "")

clean_header(lines) == CleanLines(Lines(lines))

\* a mutant of ParseYear: a word that is no number counts as the year 0
ParseYearLenient(comment_word) ==
    IF ParseI64(comment_word) = None THEN Some(0) ELSE ParseI64(comment_word)

\* check_license, line 249: the word at the place of {year} is parsed
ParseYear(comment_word) == ParseI64(comment_word)

\* check_license, lines 253-255: a year that parses marks the header outdated
\* when it is not the configured year
YearOutdated(year, license_year) == year # license_year

\* a mutant of Committed: a line that does not match always ends the check
CommittedAlways(template_line_num) == TRUE

\* check_license, lines 238, 261 and 273: lines of the header have matched
\* already, so a line that does not match ends the check
Committed(template_line_num) == template_line_num # 0

\* check_license, lines 244-281: the loop over the zipped words of one line.
\* acc = [matched_words, outdated, returned]; returned stands for the
\* `return (String::from(""), LicenseCheckRes::Missing)` of lines 262 and 274.
\* The `continue` of lines 264 and 276 continues THIS loop: the word is not
\* counted and the next word is compared.
RECURSIVE MatchWords(_, _, _, _, _, _)
MatchWords(comment_words, template_words, k, acc, template_line_num, license_year) ==
    IF k > Len(comment_words) \/ k > Len(template_words) THEN acc
    ELSE LET comment_word  == comment_words[k]
             template_word == template_words[k]
             next(a) == MatchWords(comment_words, template_words, k + 1, a,
                                   template_line_num, license_year)
             year    == ParseYear(comment_word)
             failed  == IF Committed(template_line_num)
                        THEN [acc EXCEPT !.returned = TRUE]
                        ELSE next(acc)
         IN  IF template_word = "{year}"
             THEN IF year # None
                  THEN next([acc EXCEPT
                               !.matched_words = @ + 1,
                               !.outdated = @ \/ YearOutdated(year[1], license_year)])
                  ELSE failed
             ELSE IF comment_word # template_word
                  THEN failed
                  ELSE next([acc EXCEPT !.matched_words = @ + 1])

\* check_license, lines 282-285: the line where the header starts
FoundLicenseStart(template_line_num, idx, found_license_start) ==
    IF template_line_num = 0 THEN idx ELSE found_license_start

\* check_license, lines 230-295: the loop over the lines of the comment block
\* (idx is 0-based).  st = [template_line_num, found_license_start, outdated,
\* returned].
RECURSIVE MatchLines(_, _, _, _, _)
MatchLines(comments, templates, idx, st, license_year) ==
    IF idx >= Len(comments) THEN st
    ELSE LET comment_words  == Split(comments[idx + 1], " ")
             template_words == Split(templates[st.template_line_num + 1], " ")
             w == MatchWords(comment_words, template_words, 1,
                             [matched_words |-> 0, outdated |-> st.outdated,
                              returned |-> FALSE],
                             st.template_line_num, license_year)
             advanced == IF w.matched_words = Len(template_words)
                         THEN st.template_line_num + 1
                         ELSE st.template_line_num
             st2 == [template_line_num   |-> advanced,
                     found_license_start |->
                         FoundLicenseStart(st.template_line_num, idx,
                                           st.found_license_start),
                     outdated            |-> w.outdated,
                     returned            |-> FALSE]
         IN  IF Len(comment_words) # Len(template_words)
             THEN IF Committed(st.template_line_num)
                  THEN [st EXCEPT !.returned = TRUE]
                  ELSE MatchLines(comments, templates, idx + 1, st, license_year)
             ELSE IF w.returned
                  THEN [st EXCEPT !.returned = TRUE]
                  ELSE IF advanced # Len(templates)
                       THEN MatchLines(comments, templates, idx + 1, st2, license_year)
                       ELSE st2

\* a mutant of FoundHeader: the lines are taken to the end of the block
FoundHeaderToEnd(comment_block, found_license_start, template_line_num) ==
    Join(SubSeq(Lines(comment_block), found_license_start + 1,
                Len(Lines(comment_block))), "\n")

\* a mutant of FoundHeader: the lines are taken from the top of the block
FoundHeaderFromTop(comment_block, found_license_start, template_line_num) ==
    Join(SubSeq(Lines(comment_block), 1, template_line_num), "\n")

\* check_license, lines 299-302: the text of the outdated header
FoundHeader(comment_block, found_license_start, template_line_num) ==
    Join(SubSeq(Lines(comment_block), found_license_start + 1,
                found_license_start + template_line_num), "\n")

\* check_license, lines 205-207 and 211: the template the block is compared with
HeaderTemplate(config) ==
    IF config.licensee # None
    THEN Replace(config.license_header_template[1], "{licensee}", config.licensee[1])
    ELSE config.license_header_template[1]

\* check_license: (replace, res).  res = "Panic" stands for the index out of
\* bounds of `&templates[template_line_num]` at line 227.
check_license(comment_block, config) ==
    LET comments  == clean_header(comment_block)
        templates == clean_header(HeaderTemplate(config))
        template_num_lines == Len(templates)
        Missing == [replace |-> "", res |-> "Missing"]
    IN  IF Len(comments) < template_num_lines THEN Missing
        ELSE IF template_num_lines = 0 THEN [replace |-> "", res |-> "Panic"]
        ELSE LET st == MatchLines(comments, templates, 0,
                                  [template_line_num |-> 0, found_license_start |-> 0,
                                   outdated |-> FALSE, returned |-> FALSE],
                                  config.license_year)
             IN  IF st.returned THEN Missing
                 ELSE IF st.template_line_num = template_num_lines
                 THEN IF st.outdated
                      THEN [replace |-> FoundHeader(comment_block, st.found_license_start,
                                                    st.template_line_num),
                            res |-> "Outdated"]
                      ELSE [replace |-> "", res |-> "Found"]
                 ELSE Missing

\* a mutant of InsertAtStep: a line of blanks advances insert_at as well
InsertAtStepPastBlanks(line) == Len(line) + 1

\* find_first_comment, lines 327-334: what a line before the first comment
\* adds to insert_at
InsertAtStep(line) == IF StartsWith(line, HASHBANG) THEN Len(line) + 1 ELSE 0

\* a mutant of EndsBlock: a blank line does not end the block
EndsBlockUnlessBlank(line) == ~StartsWith(line, COMMENT) /\ Trim(line) # ""

\* find_first_comment, lines 345-351: inside the block, a line that does not
\* start with '#' ends it
EndsBlock(line) == ~StartsWith(line, COMMENT)

\* find_first_comment, lines 324-352: the loop over the lines of the file
RECURSIVE ScanLines(_, _, _)
ScanLines(lines, i, acc) ==
    IF i > Len(lines) THEN acc
    ELSE LET line == lines[i]
         IN  IF acc.found_header = ""
             THEN IF StartsWith(line, HASHBANG) \/ Trim(line) = ""
                  THEN ScanLines(lines, i + 1,
                                 [acc EXCEPT !.insert_at = @ + InsertAtStep(line)])
                  ELSE IF StartsWith(line, COMMENT)
                  THEN ScanLines(lines, i + 1,
                                 [acc EXCEPT !.found_header = @ \o line \o "\n"])
                  ELSE acc
             ELSE IF EndsBlock(line)
                  THEN acc
                  ELSE ScanLines(lines, i + 1,
                                 [acc EXCEPT !.found_header = @ \o line \o "\n"])

\* find_first_comment: (found_header, insert_at) of a file's content
find_first_comment(content) ==
    ScanLines(Lines(content), 1, [found_header |-> "", insert_at |-> 0])

\* insert_header and update_header, lines 381, 402 and 447: a newline keeps
\* the header apart from a comment that follows it
Separator(rest) == IF StartsWith(rest, COMMENT) THEN "\n" ELSE ""

\* insert_header, lines 377-408: what is written to the truncated file;
\* panic stands for the failed assertion of String::split_off at line 393
insert_header(content, license_header, insert_at) ==
    IF insert_at = 0
    THEN [panic |-> FALSE,
          written |-> license_header \o Separator(content) \o content]
    ELSE IF insert_at > Len(content)
    THEN [panic |-> TRUE, written |-> ""]
    ELSE LET before       == Take(content, insert_at)
             after_header == Drop(content, insert_at)
         IN  [panic |-> FALSE,
              written |-> (IF Trim(before) # "" THEN before ELSE "")
                          \o license_header \o Separator(after_header)
                          \o after_header]

\* a mutant of WithFinalNewline: no newline is added
WithoutFinalNewline(content) == content

\* update_header, lines 428-431: the content ends with a newline
WithFinalNewline(content) == IF ~EndsWith(content, "\n") THEN content \o "\n" ELSE content

\* update_header, lines 428-450: what is written to the truncated file;
\* panic stands for the unwrap of `content.find(exisiting_header)` at line 433
update_header(content, exisiting_header, license_header) ==
    LET c            == WithFinalNewline(content)
        split_at_idx == Find(c, exisiting_header)
        before_header == Take(c, split_at_idx)
        after_header  == Drop(c, split_at_idx + Len(exisiting_header))
    IN  IF split_at_idx = -1
        THEN [panic |-> TRUE, written |-> ""]
        ELSE [panic |-> FALSE,
              written |-> before_header \o license_header
                          \o Separator(after_header) \o after_header]

(***************************************************************************)
(* The state of one invocation `licensepy format [files]`, and of the      *)
(* invocations that follow it on the same files.                           *)
(***************************************************************************)
VARIABLES
    args,        \* the command line: files, licensee, license_year, dry_run
    config,      \* read_config()'s Config, then Formatter.config
    disk,        \* the content of each python file that exists
    perm,        \* what open() is allowed on each file: "rw", "r" or "none"
    run,         \* "new", "running", "exited" (process::exit) or "panicked"
    files,       \* Formatter.files
    header,      \* Formatter.header
    task,        \* per entry of files: where its format_file is, and its locals
    exit_status, \* None while the process lives, then Some(its exit status)
    pass,        \* the number of this invocation
    start_disk,  \* history: disk when this invocation began
    history      \* history: how each earlier invocation ended

vars == <<args, config, disk, perm, run, files, header, task, exit_status, pass,
          start_disk, history>>

(***************************************************************************)
(* The inputs the model draws from.                                        *)
(***************************************************************************)
\* lines of python files: blank, interpreter directive, comment, the header
\* of the first template with this year, another year and no year, a comment
\* with a year, the two lines of the second template's header, and code
LineSet ==
    { "", "#!/usr/bin/python", "# Comment",
      "# 2025 Acme Corp", "# 2024 Acme Corp", "# year Acme Corp",
      "# 2024 Other Corp",
      "# Copyright 2024", "# Acme Corp",
      "import os" }

\* every file of at most n lines of LineSet, its last line with or without "\n"
ContentsOf(n) ==
    { Join(ls, "\n") \o end :
        ls \in UNION { [1..k -> LineSet] : k \in 0..n }, end \in {"", "\n"} }

\* files whose lines end with "\r\n": headers of the two templates, of one
\* and of two lines
CrlfContents ==
    { Join(ls, "\r\n") \o "\r\n" :
        ls \in UNION { [1..k -> {"# 2024 Acme Corp", "# Copyright 2024", "# Acme Corp"}] :
                        k \in 1..2 } }

\* a file whose outdated header follows a comment that holds its text
EchoContents == { "# 2024 Acme Corporation\n# 2024 Acme Corp\n" }

\* files whose header has two spaces between two of its words
SpacedContents == { "# 2025  Acme Corp\n", "# 2024  Acme Corp\n# Comment\n" }

Contents == ContentsOf(MaxLines) \cup CrlfContents \cup EchoContents \cup SpacedContents

\* the configurations: the template of the repository's test with no
\* placeholder for the licensee; a template of two lines without '#' whose
\* licensee and year come from the command line; a template with {licensee}
\* and no licensee anywhere; no template
Invocations ==
    { [config |-> [license_header_template |-> Some("# {year} Acme Corp"),
                   licensee |-> None, license_year |-> 2025],
       cl_licensee |-> None, cl_license_year |-> None],
      [config |-> [license_header_template |-> Some("Copyright {year}\n{licensee}"),
                   licensee |-> None, license_year |-> 2026],
       cl_licensee |-> Some("Acme Corp"), cl_license_year |-> Some(2025)],
      [config |-> [license_header_template |-> Some("# {year} {licensee}"),
                   licensee |-> None, license_year |-> 2025],
       cl_licensee |-> None, cl_license_year |-> None],
      [config |-> [license_header_template |-> None,
                   licensee |-> Some("Acme Corp"), license_year |-> 2025],
       cl_licensee |-> None, cl_license_year |-> None] }

\* two more configurations: a template with a blank line between its two
\* lines, and the empty template
BlankLineInvocation ==
    [config |-> [license_header_template |-> Some("Copyright {year}\n\n{licensee}"),
                 licensee |-> Some("Acme Corp"), license_year |-> 2025],
     cl_licensee |-> None, cl_license_year |-> None]

EmptyTemplateInvocation ==
    [config |-> [license_header_template |-> Some(""),
                 licensee |-> None, license_year |-> 2025],
     cl_licensee |-> None, cl_license_year |-> None]

\* the files they are run on: the header of the first with and without its
\* blank comment line, with the year of the configuration and another, and
\* files without a comment
FewBlocks ==
    { "# Copyright 2025\n#\n# Acme Corp\n", "# Copyright 2024\n# \n# Acme Corp\n",
      "# Copyright 2025\n# Acme Corp\n", "# Copyright 2025\n\n# Acme Corp\n",
      "# Comment\n", "import os\n", "" }

\* each configuration with each file it is run on
Pairings ==
    (Invocations \X Contents)
       \cup ({BlankLineInvocation, EmptyTemplateInvocation} \X FewBlocks)

\* the files of the multi-file specification
Paths == {"a.py", "b.py"}

\* a path of the command line that names no file
GonePath == "gone.py"

\* their contents: no header, an outdated header, the current header
FewContents == {"import os\n", "# 2024 Acme Corp\n", "# 2025 Acme Corp\n"}

NewTask ==
    [pc |-> "unprocessed", found_header |-> "", insert_at |-> 0, res |-> "",
     replace |-> "", needs_fix |-> FALSE, content |-> "", op |-> "none",
     err |-> "none"]

\* what every initial state shares
InitRun ==
    /\ run = "new"
    /\ files = <<>>
    /\ header = ""
    /\ task = <<>>
    /\ exit_status = None
    /\ pass = 1
    /\ start_disk = disk
    /\ history = <<>>

\* one file, of any content; or one file that cannot be opened
Init ==
    /\ \E pair \in Pairings, dry_run \in BOOLEAN, p \in {"rw", "r", "none"} :
         /\ args = [files |-> <<"a.py">>, cl_licensee |-> pair[1].cl_licensee,
                    cl_license_year |-> pair[1].cl_license_year, dry_run |-> dry_run]
         /\ config = pair[1].config
         /\ p # "rw" => pair[2] = "# 2024 Acme Corp\n"
         /\ disk = [f \in {"a.py"} |-> pair[2]]
         /\ perm = [f \in {"a.py"} |-> p]
    /\ InitRun

\* lines of a header template: with and without '#', with blanks around
\* them, empty, with the placeholders apart and in one line
TemplateLines ==
    { "# {year} {licensee}", "Copyright {year}", "  {licensee} ", "", "#{year}" }

\* every template of at most n of these lines, with or without a final "\n"
TemplatesOf(n) ==
    { Join(ls, "\n") \o end :
        ls \in UNION { [1..k -> TemplateLines] : k \in 0..n }, end \in {"", "\n"} }

\* the header is rendered for every such template, with a licensee and a
\* year from pyproject.toml or the command line; the directory holds no
\* python file
InitRender ==
    /\ \E template \in TemplatesOf(MaxTemplateLines),
          licensee \in {None, Some("Acme Corp")},
          cl_licensee \in {None, Some("Other Inc")},
          cl_license_year \in {None, Some(2024)} :
         /\ args = [files |-> <<>>, cl_licensee |-> cl_licensee,
                    cl_license_year |-> cl_license_year, dry_run |-> FALSE]
         /\ config = [license_header_template |-> Some(template),
                      licensee |-> licensee, license_year |-> 2025]
    /\ disk = <<>>
    /\ perm = <<>>
    /\ InitRun

\* the i-th path of a long list
PathOf(i) == NatToString(i) \o ".py"

\* a long list of files without a header, given on the command line
InitCount ==
    /\ \E n \in {1, ManyFiles - 1, ManyFiles}, dry_run \in BOOLEAN :
         /\ args = [files |-> [i \in 1..n |-> PathOf(i)], cl_licensee |-> None,
                    cl_license_year |-> None, dry_run |-> dry_run]
         /\ disk = [f \in {PathOf(i) : i \in 1..n} |-> "import os\n"]
         /\ perm = [f \in {PathOf(i) : i \in 1..n} |-> "rw"]
    /\ config = [license_header_template |-> Some("# {year} Acme Corp"),
                 licensee |-> None, license_year |-> 2025]
    /\ InitRun

\* a list of files, or none (the search of the directory), with few contents
InitMany ==
    /\ \E inv \in Invocations, dry_run \in BOOLEAN,
          fs \in UNION { [1..k -> Paths \cup {GonePath}] : k \in 0..MaxFiles } :
         /\ inv.cl_licensee = None /\ inv.config.licensee = None
         /\ inv.config.license_header_template # None
         /\ ~Contains(inv.config.license_header_template[1], "{licensee}")
         /\ args = [files |-> fs, cl_licensee |-> inv.cl_licensee,
                    cl_license_year |-> inv.cl_license_year, dry_run |-> dry_run]
         /\ config = inv.config
    /\ disk \in [Paths -> FewContents]
    /\ perm \in [Paths -> {"rw", "none"}]
    /\ InitRun

(***************************************************************************)
(* The operations.                                                         *)
(***************************************************************************)
\* SetToSeq: the files of a set in some order (read_dir gives no order)
Orders(S) == { o \in [1..Cardinality(S) -> S] : \A f \in S : \E i \in DOMAIN o : o[i] = f }

\* Formatter::new, lines 64-72: the command line has precedence
Overridden(c, a) ==
    [c EXCEPT !.licensee = IF a.cl_licensee # None THEN a.cl_licensee ELSE @,
              !.license_year = IF a.cl_license_year # None
                               THEN a.cl_license_year[1] ELSE @]

\* Formatter::new, lines 81-86: the paths of the command line that exist
\* (every path of the model has the extension py)
ExistingFiles(fs) == SelectSeq(fs, LAMBDA f : f \in DOMAIN disk)

\* process::exit(code)
ExitWith(code) ==
    /\ run' = "exited"
    /\ exit_status' = Some(code % 256)

\* Formatter::new: exit(1) without a template or without a licensee the
\* template asks for; otherwise the Formatter is built
New ==
    /\ run = "new"
    /\ start_disk' = disk
    /\ IF config.license_header_template = None
       THEN /\ ExitWith(1)
            /\ UNCHANGED <<config, files, header, task>>
       ELSE \E c \in {Overridden(config, args)} :
            \E h \in {format_header(c)} :
                IF h.exit
                THEN /\ ExitWith(1)
                     /\ config' = c
                     /\ UNCHANGED <<files, header, task>>
                ELSE /\ config' = c
                     /\ header' = h.header
                     /\ \E fs \in (IF args.files # <<>>
                                   THEN {ExistingFiles(args.files)}
                                   ELSE Orders(DOMAIN disk)) :
                          /\ files' = fs
                          /\ task' = [i \in 1..Len(fs) |-> NewTask]
                     /\ run' = "running"
                     /\ UNCHANGED exit_status
    /\ UNCHANGED <<args, disk, perm, pass, history>>

\* File::options()...open(file), lines 134-138
CanOpen(f) == IF args.dry_run THEN perm[f] \in {"r", "rw"} ELSE perm[f] = "rw"

Panic(i, why) == task' = [task EXCEPT ![i].pc = "panicked", ![i].err = why]

\* format_file, lines 134-138: the file is opened, or unwrap panics
Open(i) ==
    /\ run = "running"
    /\ task[i].pc = "unprocessed"
    /\ IF CanOpen(files[i])
       THEN task' = [task EXCEPT ![i].pc = "opened"]
       ELSE Panic(i, "open")
    /\ UNCHANGED <<args, config, disk, perm, run, files, header, exit_status, pass,
                   start_disk, history>>

\* format_file, lines 143-176: the value returned for a classification
NeedsFix(res) == res \in {"Missing", "Outdated"}

\* mutants of Rewrites: an outdated header is not replaced; a file is
\* rewritten whatever its classification; dry_run is not looked at
RewritesMissingOnly(res) == ~args.dry_run /\ res = "Missing"

RewritesAnyResult(res) == ~args.dry_run

RewritesInDryRun(res) == res \in {"Missing", "Outdated"}

\* format_file, lines 153 and 172: the header is written unless dry_run
Rewrites(res) == ~args.dry_run /\ res \in {"Missing", "Outdated"}

\* format_file, lines 142-178: the first comment is read from the file and
\* classified; without a fix to make, format_file returns
Classify(i) ==
    /\ run = "running"
    /\ task[i].pc = "opened"
    /\ \E first \in {find_first_comment(disk[files[i]])} :
       \E check \in {check_license(first.found_header, config)} :
           IF check.res = "Panic"
           THEN Panic(i, "index")
           ELSE task' = [task EXCEPT
                    ![i].found_header = first.found_header,
                    ![i].insert_at = first.insert_at,
                    ![i].res = check.res,
                    ![i].replace = check.replace,
                    ![i].needs_fix = NeedsFix(check.res),
                    ![i].pc = IF Rewrites(check.res) THEN "classified" ELSE "done"]
    /\ UNCHANGED <<args, config, disk, perm, run, files, header, exit_status, pass,
                   start_disk, history>>

\* insert_header, lines 370-372, and update_header, lines 422-424: the whole
\* file is read
ReadContent(i) ==
    /\ run = "running"
    /\ task[i].pc = "classified"
    /\ task' = [task EXCEPT
                  ![i].content = disk[files[i]],
                  ![i].op = IF task[i].res = "Missing" THEN "insert" ELSE "update",
                  ![i].pc = "read"]
    /\ UNCHANGED <<args, config, disk, perm, run, files, header, exit_status, pass,
                   start_disk, history>>

\* insert_header, line 373, and update_header, line 425: file.set_len(0)
Truncate(i) ==
    /\ run = "running"
    /\ task[i].pc = "read"
    /\ disk' = [disk EXCEPT ![files[i]] = ""]
    /\ task' = [task EXCEPT ![i].pc = "truncated"]
    /\ UNCHANGED <<args, config, perm, run, files, header, exit_status, pass,
                   start_disk, history>>

\* write_all from offset 0 (the seek of lines 375 and 427) over what the
\* file holds
WriteAt0(old, data) == data \o Drop(old, Len(data))

\* insert_header, lines 377-408, and update_header, lines 428-450: the new
\* content is written, or the function panics with the file truncated
Write(i) ==
    /\ run = "running"
    /\ task[i].pc = "truncated"
    /\ \E w \in {IF task[i].op = "insert"
                 THEN insert_header(task[i].content, header, task[i].insert_at)
                 ELSE update_header(task[i].content, task[i].replace, header)} :
           IF w.panic
           THEN /\ Panic(i, IF task[i].op = "insert" THEN "split_off" ELSE "find")
                /\ UNCHANGED disk
           ELSE /\ disk' = [disk EXCEPT ![files[i]] = WriteAt0(@, w.written)]
                /\ task' = [task EXCEPT ![i].pc = "done"]
    /\ UNCHANGED <<args, config, perm, run, files, header, exit_status, pass,
                   start_disk, history>>

\* how many entries of a sequence of booleans are true: the sum of line 115
RECURSIVE Sum(_)
Sum(bs) == IF bs = <<>> THEN 0 ELSE (IF Head(bs) THEN 1 ELSE 0) + Sum(Tail(bs))

NumToFix == Sum([i \in DOMAIN task |-> task[i].needs_fix])

\* format_files, lines 111-123: every format_file has returned; the sum is
\* the exit code
Exit ==
    /\ run = "running"
    /\ \A i \in DOMAIN task : task[i].pc = "done"
    /\ ExitWith(NumToFix)
    /\ UNCHANGED <<args, config, disk, perm, files, header, task, pass, start_disk,
                   history>>

InFlight(i) == task[i].pc \in {"opened", "classified", "read", "truncated"}

\* par_iter, line 113: rayon first splits the list at its middle into two
\* jobs; without a thread to steal from it, a job is not split further and
\* calls format_file on its entries in order
SameJob(i, j) == (i <= Len(files) \div 2) <=> (j <= Len(files) \div 2)

\* the panic of an earlier entry of its job has ended the job before entry j
Abandoned(j) ==
    /\ task[j].pc = "unprocessed"
    /\ \E i \in 1..(j - 1) : task[i].pc = "panicked" /\ SameJob(i, j)

\* format_files, lines 111-115: a panic of format_file ends its job; rayon
\* lets the other job run to its end and then resumes the panic in the
\* caller of sum().  An entry after the panicked one in the same job is run
\* only if a thread stole it.  The process ends with status 101 and line 123
\* is not reached.
Abort ==
    /\ run = "running"
    /\ \E i \in DOMAIN task : task[i].pc = "panicked"
    /\ \A i \in DOMAIN task : task[i].pc \in {"done", "panicked"} \/ Abandoned(i)
    /\ run' = "panicked"
    /\ exit_status' = Some(101)
    /\ UNCHANGED <<args, config, disk, perm, files, header, task, pass, start_disk,
                   history>>

\* the same command is run again, on the files as they are now
Rerun ==
    /\ run \in {"exited", "panicked"}
    /\ pass < MaxPasses
    /\ pass' = pass + 1
    /\ history' = Append(history, [run |-> run, exit_status |-> exit_status,
                                   files |-> files, task |-> task,
                                   disk_before |-> start_disk, disk_after |-> disk])
    /\ run' = "new"
    /\ files' = <<>>
    /\ header' = ""
    /\ task' = <<>>
    /\ exit_status' = None
    /\ start_disk' = disk
    /\ UNCHANGED <<args, config, disk, perm>>

Next ==
    \/ New
    \/ \E i \in DOMAIN task : Open(i)
    \/ \E i \in DOMAIN task : Classify(i)
    \/ \E i \in DOMAIN task : ReadContent(i)
    \/ \E i \in DOMAIN task : Truncate(i)
    \/ \E i \in DOMAIN task : Write(i)
    \/ Exit
    \/ Abort
    \/ Rerun

\* one file of any content
Spec == Init /\ [][Next]_vars

\* a list of files
SpecMany == InitMany /\ [][Next]_vars

\* a pool of one thread (-j 1, the default of argparse.rs, line 65) calls
\* format_file on the entries of the list one after the other
InTurn(i) == \A j \in 1..(i - 1) : task[j].pc = "done"

NextCount ==
    \/ New
    \/ \E i \in DOMAIN task : InTurn(i) /\ Open(i)
    \/ \E i \in DOMAIN task : Classify(i)
    \/ \E i \in DOMAIN task : ReadContent(i)
    \/ \E i \in DOMAIN task : Truncate(i)
    \/ \E i \in DOMAIN task : Write(i)
    \/ Exit

SpecCount == InitCount /\ [][NextCount]_vars

\* the runs that only render the header: no file is found
NextRender ==
    \/ New
    \/ Exit

SpecRender == InitRender /\ [][NextRender]_vars

(***************************************************************************)
(* What the claims speak of.  A header is described here by what it is,    *)
(* not by how check_license looks for it.                                  *)
(***************************************************************************)
\* check_license has returned for entry i
Classified(i) == task[i].res # ""

\* the lines of the comment block of entry i, as found in the file
Block(i) == Lines(task[i].found_header)

\* the lines of the template the block is compared with
Templates == CleanLines(Lines(HeaderTemplate(config)))

FixMode == ~args.dry_run

\* a word of a comment line is the word the template has at its place
WordFits(comment_word, template_word) ==
    IF template_word = "{year}" THEN ParsesI64(comment_word)
    ELSE comment_word = template_word

\* a comment line is a line of the template, word for word
LineFits(comment_line, template_line) ==
    LET c == Split(CleanLine(comment_line), " ")
        t == Split(template_line, " ")
    IN  Len(c) = Len(t) /\ \A k \in 1..Len(t) : WordFits(c[k], t[k])

\* the lines s+1 .. s+T of the block are the T lines of the template
HeaderAt(block, templates, s) ==
    /\ s + Len(templates) <= Len(block)
    /\ \A j \in 1..Len(templates) : LineFits(block[s + j], templates[j])

\* the s lines before them have nothing of the header's first line
Unrelated(block, templates, s) ==
    \A idx \in 1..s : ~LineFits(block[idx], templates[1])

\* a year of the header at s is not the configured year
YearDiffers(block, templates, s, license_year) ==
    \E j \in 1..Len(templates) :
       LET c == Split(CleanLine(block[s + j]), " ")
           t == Split(templates[j], " ")
       IN  \E k \in 1..Len(t) :
              t[k] = "{year}" /\ ParseI64(c[k]) # Some(license_year)

\* at s, a number stands at the place of every {year} of the template
YearsParseAt(block, templates, s) ==
    \A j \in 1..Len(templates) :
       LET c == Split(CleanLine(block[s + j]), " ")
           t == Split(templates[j], " ")
       IN  \A k \in 1..Len(t) :
              t[k] = "{year}" => (k <= Len(c) /\ ParsesI64(c[k]))

HasYear(templates) ==
    \E j \in 1..Len(templates) :
       \E k \in 1..Len(Split(templates[j], " ")) : Split(templates[j], " ")[k] = "{year}"

\* the earlier invocation ended with process::exit
PreviousPassExited == pass >= 2 /\ history[pass - 1].run = "exited"

(***************************************************************************)
(* The claims.                                                             *)
(***************************************************************************)

\* C1: idempotence.  When the formatter has run in fix mode and is run again
\* on the same file, the second run classifies the file Found.
C1_SecondPassFound ==
    (FixMode /\ PreviousPassExited) =>
        \A i \in DOMAIN task : Classified(i) => task[i].res = "Found"

\* C2: round trip.  After insert_header has written the header into a file
\* classified Missing, find_first_comment and check_license on the rewritten
\* file give Found.
C2_InsertRoundTrip ==
    \A i \in DOMAIN task :
       (task[i].pc = "done" /\ task[i].op = "insert") =>
           check_license(find_first_comment(disk[files[i]]).found_header,
                         config).res = "Found"

\* C3: a block that holds the header of the template, after lines that are
\* none of the header, with a year that is not the configured year, is
\* Outdated, and the span returned is the text of exactly the T lines of the
\* header.  (block and templates are bound once, to be computed once.)
C3_YearDiffersIsOutdated ==
    \A i \in DOMAIN task : Classified(i) =>
       \A block \in {Block(i)}, templates \in {Templates} :
          \A s \in 0..Len(block) :
             ( /\ Unrelated(block, templates, s)
               /\ HeaderAt(block, templates, s)
               /\ YearDiffers(block, templates, s, config.license_year) )
             => /\ task[i].res = "Outdated"
                /\ task[i].replace =
                      Join(SubSeq(block, s + 1, s + Len(templates)), "\n")

\* C3's case: an outdated header of two lines after one unrelated line
C3_Witness ==
    \E i \in DOMAIN task :
       /\ Classified(i)
       /\ \E block \in {Block(i)}, templates \in {Templates} :
             /\ Len(templates) = 2
             /\ Len(block) = 3
             /\ Unrelated(block, templates, 1)
             /\ HeaderAt(block, templates, 1)
             /\ YearDiffers(block, templates, 1, config.license_year)
       /\ task[i].res = "Outdated"

\* C4: with a template that holds {year}, a block in which no run of T lines
\* has a number at the place of every {year} is Missing.
C4_NonNumericYearIsMissing ==
    \A i \in DOMAIN task : Classified(i) =>
       \A block \in {Block(i)}, templates \in {Templates} :
          ( /\ HasYear(templates)
            /\ \A s \in 0..(Len(block) - Len(templates)) :
                  ~YearsParseAt(block, templates, s) )
          => task[i].res = "Missing"

\* C4's case: the header of the template but for its year, which is a word
C4_Witness ==
    \E i \in DOMAIN task :
       /\ Classified(i)
       /\ config.license_header_template = Some("# {year} Acme Corp")
       /\ task[i].found_header = "# year Acme Corp\n"
       /\ task[i].res = "Missing"

\* C5: comment lines that are none of the header, before the T lines of the
\* header in the same block, do not make the file Missing.
C5_LeadingCommentsAreSkipped ==
    \A i \in DOMAIN task : Classified(i) =>
       \A block \in {Block(i)}, templates \in {Templates} :
          \A s \in 0..Len(block) :
             (Unrelated(block, templates, s) /\ HeaderAt(block, templates, s))
             => task[i].res \in {"Found", "Outdated"}

\* C5's case: two unrelated lines before a header that is found
C5_Witness ==
    \E i \in DOMAIN task :
       /\ Classified(i)
       /\ \E block \in {Block(i)}, templates \in {Templates} :
             /\ Len(block) = 3
             /\ Unrelated(block, templates, 2)
             /\ HeaderAt(block, templates, 2)
       /\ task[i].res = "Found"

\* the file, template and year of scenario B, in fix mode
ScenarioB(i) ==
    /\ FixMode
    /\ config.license_header_template = Some("# {year} Acme Corp")
    /\ config.license_year = 2025
    /\ start_disk[files[i]] = "#!/usr/bin/python\n\n# 2024 Acme Corp"

\* C6 as the specification states it: the file of scenario B is Outdated, the
\* span is the header line with its newline, and the fixed content is the
\* one given.
C6_ScenarioB_AsStated ==
    \A i \in DOMAIN task : ScenarioB(i) =>
       /\ Classified(i) => /\ task[i].res = "Outdated"
                           /\ task[i].replace = "# 2024 Acme Corp\n"
       /\ task[i].pc = "done" =>
             disk[files[i]] = "#!/usr/bin/python\n\n# 2025 Acme Corp\n\n"

\* C6, amended: the span is the header line without its newline; the
\* classification and the fixed content are as the specification states.
C6_ScenarioB ==
    \A i \in DOMAIN task : ScenarioB(i) =>
       /\ Classified(i) => /\ task[i].res = "Outdated"
                           /\ task[i].replace = "# 2024 Acme Corp"
       /\ task[i].pc = "done" =>
             disk[files[i]] = "#!/usr/bin/python\n\n# 2025 Acme Corp\n\n"

\* C6's case: the file of scenario B has been fixed
C6_Witness ==
    \E i \in DOMAIN task : ScenarioB(i) /\ task[i].pc = "done"

C9_DryRunNeverWrites ==
    args.dry_run =>
       /\ disk = start_disk
       /\ \A i \in DOMAIN task :
             Classified(i) => (task[i].needs_fix <=> task[i].res # "Found")

\* C9's case: with dry_run, a file with an outdated header has been reported
\* and left alone
C9_Witness ==
    /\ args.dry_run
    /\ \E i \in DOMAIN task :
          /\ task[i].pc = "done"
          /\ task[i].res = "Outdated"
          /\ task[i].needs_fix
          /\ disk[files[i]] = start_disk[files[i]]

\* C10: when a file cannot be opened, the process still ends by reporting the
\* count, with every other file processed to its end and the file that
\* failed counted as not fixed.
C10_OpenFailureIsPerFile ==
    ( /\ run \in {"exited", "panicked"}
      /\ \E i \in DOMAIN task : task[i].err = "open" )
    => /\ run = "exited"
       /\ \A j \in DOMAIN task : task[j].err # "open" => task[j].pc = "done"
       /\ exit_status = Some(NumToFix)

\* the configuration, with what the command line overrides, has no template
\* or has a template that asks for a licensee nobody gave
ConfigError ==
    \E c \in {Overridden(config, args)} :
       \/ c.license_header_template = None
       \/ /\ Contains(c.license_header_template[1], "{licensee}")
          /\ c.licensee = None

\* C11: with a configuration error the run ends with exit(1) before any file
\* is listed, opened or modified.
C11_ConfigErrorTouchesNoFile ==
    ConfigError =>
        /\ run \in {"new", "exited"}
        /\ files = <<>>
        /\ task = <<>>
        /\ disk = start_disk
        /\ run = "exited" => exit_status = Some(1)

\* C11's case: a run whose template asks for a licensee nobody gave has ended
C11_Witness ==
    /\ ConfigError
    /\ config.license_header_template # None
    /\ run = "exited"
    /\ disk = start_disk

\* format_header has returned the header of this run
Rendered == run = "running" \/ (run = "exited" /\ ~ConfigError)

\* the header ends with one newline, and only one
OneFinalNewline(h) == EndsWith(h, "\n") /\ ~EndsWith(h, "\n\n")

\* no placeholder is left, every line starts with '#', and with "# " when
\* the line of the template did not start with '#'
WellRendered(h, template) ==
    /\ ~Contains(h, "{licensee}")
    /\ ~Contains(h, "{year}")
    /\ Len(Lines(h)) = Len(Lines(template))
    /\ \A i \in 1..Len(Lines(h)) :
          /\ StartsWith(Lines(h)[i], COMMENT)
          /\ ~StartsWith(Trim(Lines(template)[i]), COMMENT)
                => StartsWith(Lines(h)[i], COMMENT \o " ")

\* C12: the rendered header holds no placeholder, each of its lines starts
\* with '#' ("# " is put before a line of the template that does not), and it
\* ends with exactly one newline.
C12_RenderedHeader ==
    Rendered =>
        /\ WellRendered(header, config.license_header_template[1])
        /\ OneFinalNewline(header)

\* what holds of C12 in the code: the same, for a template that has a line
C12_RenderedHeaderOfALine ==
    (Rendered /\ config.license_header_template[1] # "") =>
        /\ WellRendered(header, config.license_header_template[1])
        /\ OneFinalNewline(header)

\* C13: the exit status of the process is the number of files whose header
\* was Missing or Outdated, and so is not 0 when there is such a file.
C13_ExitCodeIsCount ==
    (run = "exited" /\ ~ConfigError) =>
        /\ exit_status = Some(NumToFix)
        /\ NumToFix > 0 => exit_status # Some(0)

\* the content of the file of entry i when find_first_comment read it
ContentRead(i) == start_disk[files[i]]

\* a line that find_first_comment passes over before the first comment
IsDirective(line) == StartsWith(line, HASHBANG)

IsBlank(line) == Trim(line) = ""

\* how many lines at the top of the file are directives or blank
Leading(lines) ==
    CHOOSE k \in 0..Len(lines) :
       /\ \A j \in 1..k : IsDirective(lines[j]) \/ IsBlank(lines[j])
       /\ k < Len(lines) => ~(IsDirective(lines[k + 1]) \/ IsBlank(lines[k + 1]))

\* the bytes of the first k lines, each with its newline: of all of them, or
\* of the directives only
RECURSIVE BytesOf(_, _, _)
BytesOf(lines, k, all) ==
    IF k = 0 THEN 0
    ELSE BytesOf(lines, k - 1, all)
         + (IF all \/ IsDirective(lines[k]) THEN Len(lines[k]) + 1 ELSE 0)

\* the offset just after the directives and blank lines at the top
OffsetAfterLeading(content) ==
    LET lines == Lines(content)
        n     == BytesOf(lines, Leading(lines), TRUE)
    IN  IF n > Len(content) THEN Len(content) ELSE n

\* C14 as the specification states it: insert_at is the offset just after the
\* interpreter directives and the blank lines at the top of the file.
C14_InsertAtAfterBlanks ==
    \A i \in DOMAIN task : Classified(i) =>
       task[i].insert_at = OffsetAfterLeading(ContentRead(i))

\* C14, amended: insert_at is the number of bytes of the interpreter
\* directives at the top of the file, each counted with one byte for its
\* newline; the blank lines among them add nothing.
C14_InsertAtCountsDirectives ==
    \A i \in DOMAIN task : Classified(i) =>
       \A lines \in {Lines(ContentRead(i))} :
          task[i].insert_at = BytesOf(lines, Leading(lines), FALSE)

\* C14's case: a directive and a blank line stand before the first comment
C14_Witness ==
    \E i \in DOMAIN task :
       /\ Classified(i)
       /\ task[i].found_header # ""
       /\ \E lines \in {Lines(ContentRead(i))} :
             /\ Leading(lines) >= 2
             /\ \E j \in 1..Leading(lines) : IsDirective(lines[j])
             /\ \E j \in 1..Leading(lines) : IsBlank(lines[j]) /\ ~IsDirective(lines[j])

\* the last line of the run of lines starting with '#' that begins at line
\* first
RunEnd(lines, first) ==
    CHOOSE m \in first..Len(lines) :
       /\ \A j \in first..m : StartsWith(lines[j], COMMENT)
       /\ m < Len(lines) => ~StartsWith(lines[m + 1], COMMENT)

\* the lines first..last, each with a newline
RECURSIVE TextOf(_, _, _)
TextOf(lines, first, last) ==
    IF first > last THEN ""
    ELSE lines[first] \o "\n" \o TextOf(lines, first + 1, last)

\* the longest run of lines starting with '#' that begins at the first line
\* after the directives and blank lines at the top; empty when that line is
\* no comment
FirstCommentRun(content) ==
    LET lines == Lines(content)
        first == Leading(lines) + 1
    IN  IF first > Len(lines) \/ ~StartsWith(lines[first], COMMENT)
        THEN ""
        ELSE TextOf(lines, first, RunEnd(lines, first))

\* C15: the block of find_first_comment is the longest run of lines starting
\* with '#' that begins at the first comment line; a line without '#', blank
\* or not, ends it, and the block is empty when the first line that is neither
\* blank nor a directive is no comment.
C15_BlockIsFirstCommentRun ==
    \A i \in DOMAIN task : Classified(i) =>
       task[i].found_header = FirstCommentRun(ContentRead(i))

\* C15's case: a blank line and one more comment follow the block
C15_Witness ==
    \E i \in DOMAIN task :
       /\ Classified(i)
       /\ task[i].found_header # ""
       /\ \E lines \in {Lines(ContentRead(i))} :
             \E m \in 1..(Len(lines) - 2) :
                /\ m = RunEnd(lines, Leading(lines) + 1)
                /\ IsBlank(lines[m + 1])
                /\ StartsWith(lines[m + 2], COMMENT)

\* insert_header is the operation of entry i and has ended, by returning or
\* by a panic
Inserted(i) == task[i].op = "insert" /\ task[i].pc \in {"done", "panicked"}

\* the content split at an offset (at its end when the offset lies beyond)
PrefixAt(content, at) == Take(content, IF at > Len(content) THEN Len(content) ELSE at)

SuffixAt(content, at) == Drop(content, IF at > Len(content) THEN Len(content) ELSE at)

\* the prefix unless it is all whitespace, the header, a newline when the
\* suffix starts with '#', the suffix
Spliced(content, license_header, at) ==
    (IF IsBlank(PrefixAt(content, at)) THEN "" ELSE PrefixAt(content, at))
    \o license_header
    \o (IF StartsWith(SuffixAt(content, at), COMMENT) THEN "\n" ELSE "")
    \o SuffixAt(content, at)

\* C16: Insert leaves in the file the content before insert_at (unless it is
\* all whitespace), the rendered header, a newline exactly when the rest
\* starts with '#', and the rest.
C16_InsertSplices ==
    \A i \in DOMAIN task : Inserted(i) =>
       disk[files[i]] = Spliced(ContentRead(i), header, task[i].insert_at)

\* what holds of C16 in the code: the same, when insert_at lies within the file
C16_InsertSplicesWithinFile ==
    \A i \in DOMAIN task :
       (Inserted(i) /\ task[i].insert_at <= Len(ContentRead(i))) =>
           /\ task[i].pc = "done"
           /\ disk[files[i]] = Spliced(ContentRead(i), header, task[i].insert_at)

\* update_header is the operation of entry i and has ended, by returning or
\* by a panic
Updated(i) == task[i].op = "update" /\ task[i].pc \in {"done", "panicked"}

\* the content with the first occurrence of span replaced by the header, and
\* a newline after the header when a '#' follows
Respliced(content, span, license_header) ==
    LET at     == Find(content, span)
        before == Take(content, at)
        after  == Drop(content, at + Len(span))
    IN  before \o license_header
        \o (IF StartsWith(after, COMMENT) THEN "\n" ELSE "") \o after

\* C17: the span of an Outdated file is found in the content of the file, and
\* Replace leaves in the file the text before it, the rendered header, a
\* newline when the text after it starts with '#', and the text after it.
C17_ReplaceFindsSpan ==
    \A i \in DOMAIN task : Updated(i) =>
       \A content \in {WithFinalNewline(ContentRead(i))} :
          /\ Contains(content, task[i].replace)
          /\ task[i].pc = "done"
          /\ disk[files[i]] = Respliced(content, task[i].replace, header)

\* what holds of C17 in the code: the same, for a file whose lines end with
\* "\n" alone
C17_ReplaceFindsSpanOfLfFile ==
    \A i \in DOMAIN task : (Updated(i) /\ ~Contains(ContentRead(i), "\r")) =>
       \A content \in {WithFinalNewline(ContentRead(i))} :
          /\ Contains(content, task[i].replace)
          /\ task[i].pc = "done"
          /\ disk[files[i]] = Respliced(content, task[i].replace, header)

\* in the file, the header is followed by an empty line
FollowedByBlankLine(content, license_header) ==
    \/ Contains(content, license_header \o "\n")
    \/ Contains(content, license_header \o "\r\n")

\* C18: after Replace the file ends with a newline and the new header is
\* followed by the newline of the old one, that is by a blank line; after
\* Insert the file ends with a newline only if it did before or if the header
\* is its end.
C18_ReplaceKeepsOldNewline ==
    \A i \in DOMAIN task : task[i].pc = "done" =>
       /\ task[i].op = "update" =>
             /\ EndsWith(disk[files[i]], "\n")
             /\ FollowedByBlankLine(disk[files[i]], header)
       /\ (task[i].op = "insert"
             /\ SuffixAt(ContentRead(i), task[i].insert_at) # "") =>
             (EndsWith(disk[files[i]], "\n") <=> EndsWith(ContentRead(i), "\n"))

\* the first occurrence of span in the content ends where a line ends
EndsALine(content, span) ==
    \E after \in {Drop(content, Find(content, span) + Len(span))} :
       StartsWith(after, "\n") \/ StartsWith(after, "\r\n")

\* what holds of C18 in the code: the same, when the text of the old header
\* occurs first as whole lines
C18_ReplaceKeepsOldNewlineOfWholeLines ==
    \A i \in DOMAIN task : task[i].pc = "done" =>
       /\ (task[i].op = "update"
             /\ EndsALine(WithFinalNewline(ContentRead(i)), task[i].replace)) =>
             /\ EndsWith(disk[files[i]], "\n")
             /\ FollowedByBlankLine(disk[files[i]], header)
       /\ (task[i].op = "insert"
             /\ SuffixAt(ContentRead(i), task[i].insert_at) # "") =>
             (EndsWith(disk[files[i]], "\n") <=> EndsWith(ContentRead(i), "\n"))

\* the classification of a block without its first line
WithoutFirstLine(block) == TextOf(block, 2, Len(block))

\* the first line of the block is not the first line of the template: its
\* word count differs, a word differs, or no number stands for {year}
FirstLineIsSkipped(block, templates) ==
    Len(block) >= 1 /\ ~LineFits(block[1], templates[1])

\* after s lines that are skipped, j lines are the first j lines of the
\* template, j < T, and the next line is not line j + 1 of the template
DivergesAt(block, templates, s, j) ==
    /\ j >= 1 /\ j < Len(templates)
    /\ s + j + 1 <= Len(block)
    /\ Unrelated(block, templates, s)
    /\ \A k \in 1..j : LineFits(block[s + k], templates[k])
    /\ ~LineFits(block[s + j + 1], templates[j + 1])

\* once lines of the template have matched, a line that does not match gives
\* Missing, whatever follows
FailsOnceCommitted(i) ==
    \A block \in {Block(i)}, templates \in {Templates} :
       (\E s \in 0..Len(block), j \in 1..Len(block) : DivergesAt(block, templates, s, j))
          => task[i].res = "Missing"

\* C19: while no line of the template has matched, a line that does not match
\* is skipped: the result is the one of the block without it.  Once a line
\* has matched, a line that does not match gives Missing.
C19_SkipOrFail ==
    \A i \in DOMAIN task : Classified(i) =>
       /\ \A block \in {Block(i)}, templates \in {Templates} :
             FirstLineIsSkipped(block, templates) =>
                task[i].res = check_license(WithoutFirstLine(block), config).res
       /\ FailsOnceCommitted(i)

\* what holds of C19 in the code: the second half, and of the first half that
\* a skipped line does not turn a header into Missing or Missing into a header
C19_SkipKeepsMissing ==
    \A i \in DOMAIN task : Classified(i) =>
       /\ \A block \in {Block(i)}, templates \in {Templates} :
             FirstLineIsSkipped(block, templates) =>
                (task[i].res = "Missing"
                   <=> check_license(WithoutFirstLine(block), config).res = "Missing")
       /\ FailsOnceCommitted(i)

\* the text with one space where it has several
RECURSIVE SingleSpaced(_)
SingleSpaced(s) ==
    IF Contains(s, "  ") THEN SingleSpaced(Replace(s, "  ", " ")) ELSE s

\* C20: the classification of a block is the one of the same block with a
\* single space between the words of each line.
C20_SpacingDoesNotMatter ==
    \A i \in DOMAIN task : Classified(i) =>
       task[i].res = check_license(SingleSpaced(task[i].found_header), config).res

\* the lines of the template that are not empty
NonEmptyLines(templates) == SelectSeq(templates, LAMBDA line : line # "")

\* C21 as the specification states it: a block that holds the non-empty lines
\* of the template one after the other is Found or Outdated, whether or not
\* the template has blank lines.
C21_BlankTemplateLinesIgnored ==
    \A i \in DOMAIN task : Classified(i) =>
       \A block \in {Block(i)}, templates \in {NonEmptyLines(Templates)} :
          \A s \in 0..Len(block) :
             (Unrelated(block, templates, s) /\ HeaderAt(block, templates, s))
             => task[i].res \in {"Found", "Outdated"}

\* C21, amended: T counts every line of the template, the blank ones too.  A
\* block with fewer lines is Missing, so is the block of the non-empty lines
\* alone, and a block that has an empty comment line where the template has a
\* blank line is Found or Outdated.
C21_BlankTemplateLinesCount ==
    \A i \in DOMAIN task : Classified(i) =>
       \A block \in {Block(i)}, templates \in {Templates} :
          /\ Len(block) < Len(templates) => task[i].res = "Missing"
          /\ ( /\ Len(NonEmptyLines(templates)) < Len(templates)
               /\ Len(block) = Len(NonEmptyLines(templates))
               /\ HeaderAt(block, NonEmptyLines(templates), 0) )
             => task[i].res = "Missing"
          /\ \A s \in 0..Len(block) :
                (Unrelated(block, templates, s) /\ HeaderAt(block, templates, s))
                => task[i].res \in {"Found", "Outdated"}

\* C21's case: the template has a blank line and the block has an empty
\* comment line at its place
C21_Witness ==
    \E i \in DOMAIN task :
       /\ Classified(i)
       /\ \E block \in {Block(i)}, templates \in {Templates} :
             /\ Len(NonEmptyLines(templates)) < Len(templates)
             /\ HeaderAt(block, templates, 0)
       /\ task[i].res = "Found"

\* the first n lines of a block, each with its newline
FirstLines(block, n) == TextOf(block, 1, n)

\* C22: when the T lines of the template have matched, the lines that follow
\* in the block change neither the classification nor the span: both are the
\* ones of the block cut after the header.
C22_LinesAfterHeaderDoNotMatter ==
    \A i \in DOMAIN task : Classified(i) =>
       \A block \in {Block(i)}, templates \in {Templates} :
          \A s \in 0..Len(block) :
             (Unrelated(block, templates, s) /\ HeaderAt(block, templates, s))
             => \A cut \in {check_license(FirstLines(block, s + Len(templates)), config)} :
                   /\ task[i].res = cut.res
                   /\ task[i].replace = cut.replace
                   /\ task[i].res \in {"Found", "Outdated"}

\* C22's case: an outdated header is followed by one more comment line
C22_Witness ==
    \E i \in DOMAIN task :
       /\ Classified(i)
       /\ task[i].res = "Outdated"
       /\ \E block \in {Block(i)}, templates \in {Templates} :
             /\ HeaderAt(block, templates, 0)
             /\ Len(block) > Len(templates)

\* C23: no file is in the hands of two workers at once: two entries of the
\* list that are both between open and the end of format_file name two files.
C23_NoFileInTwoWorkers ==
    \A i \in DOMAIN task : \A j \in DOMAIN task :
       (i # j /\ InFlight(i) /\ InFlight(j)) => files[i] # files[j]

\* the steps of the worker that holds entry i
Worker(i) ==
    \/ Open(i)
    \/ Classify(i)
    \/ ReadContent(i)
    \/ Truncate(i)
    \/ Write(i)

\* files of code only: empty (an __init__.py), or a module
CodeOnly == {"", "import os\n"}

\* a list of files without a header, each named once; a file may be
\* read-only and a path may name no file
InitOnce ==
    /\ \E inv \in Invocations, dry_run \in BOOLEAN,
          fs \in UNION { [1..k -> Paths \cup {GonePath}] : k \in 0..MaxFiles } :
         /\ inv.cl_licensee = None /\ inv.config.licensee = None
         /\ inv.config.license_header_template # None
         /\ ~Contains(inv.config.license_header_template[1], "{licensee}")
         /\ \A i \in DOMAIN fs : \A j \in DOMAIN fs : fs[i] = fs[j] => i = j
         /\ args = [files |-> fs, cl_licensee |-> inv.cl_licensee,
                    cl_license_year |-> inv.cl_license_year, dry_run |-> dry_run]
         /\ config = inv.config
    /\ disk \in [Paths -> CodeOnly]
    /\ perm \in [Paths -> {"rw", "none"}]
    /\ InitRun

\* one invocation, from Formatter::new to the end of the process
NextOnce ==
    \/ New
    \/ \E i \in DOMAIN task : Open(i)
    \/ \E i \in DOMAIN task : Classify(i)
    \/ \E i \in DOMAIN task : ReadContent(i)
    \/ \E i \in DOMAIN task : Truncate(i)
    \/ \E i \in DOMAIN task : Write(i)
    \/ Exit
    \/ Abort

\* format_files under fair scheduling of the workers: a worker that can
\* take a step takes one, sum() returns when every format_file has returned,
\* and a panic is resumed when the jobs have ended
SpecFair ==
    /\ InitOnce
    /\ [][NextOnce]_vars
    /\ WF_vars(\E i \in DOMAIN task : Worker(i))
    /\ WF_vars(Exit)
    /\ WF_vars(Abort)

\* every entry of the list has been classified and, where a fix is due,
\* rewritten
AllDone == \A i \in DOMAIN task : task[i].pc = "done"

\* C24: a run that has built its file list comes to the point where every
\* file is done and the count is reported as the exit status.
C24_RunCompletes ==
    (run = "running") ~> (run = "exited" /\ AllDone /\ exit_status = Some(NumToFix % 256))

\* C25: the insert_at that find_first_comment returns is an offset of the
\* file: it is at most the length of the content read.
C25_InsertAtWithinFile ==
    \A i \in DOMAIN task :
       Classified(i) => task[i].insert_at <= Len(ContentRead(i))

\* offset k is the start of a line of content s
LineBoundary(s, k) == k = 0 \/ (k <= Len(s) /\ Ch(s, k) = "\n")

\* C26: the insert_at that find_first_comment returns, when it is an offset
\* of the file, is 0 or the offset after the terminator of a line.
C26_InsertAtOnLineBoundary ==
    \A i \in DOMAIN task :
       (Classified(i) /\ task[i].insert_at <= Len(ContentRead(i)))
       => LineBoundary(ContentRead(i), task[i].insert_at)

\* the lines of the span that check_license returned for entry i
Span(i) == Lines(task[i].replace)

\* C27: when a file is Outdated, the span is a header of the template and a
\* number at the place of a {year} in the span is not the configured year.
C27_OutdatedSpanHasOldYear ==
    \A i \in DOMAIN task :
       (Classified(i) /\ task[i].res = "Outdated") =>
          \A span \in {Span(i)}, templates \in {Templates} :
             /\ HeaderAt(span, templates, 0)
             /\ YearDiffers(span, templates, 0, config.license_year)

\* the offset in the file of line s + 1 of the comment block
OffsetOfBlockLine(content, s) ==
    BytesOf(Lines(content), Leading(Lines(content)) + s, TRUE)

\* C28: Replace leaves the bytes before the matched header as they were and
\* puts the rendered header in the place of the header's lines: the file is
\* the text before block line match_start, the header, and the text after the
\* span.
C28_ReplaceExcisesMatchedLines ==
    \A i \in DOMAIN task :
       (Updated(i) /\ task[i].pc = "done" /\ ~Contains(ContentRead(i), "\r")) =>
          \A content \in {WithFinalNewline(ContentRead(i))},
             block \in {Block(i)}, templates \in {Templates} :
             \A s \in 0..Len(block) :
                (Unrelated(block, templates, s) /\ HeaderAt(block, templates, s)) =>
                   \A p \in {OffsetOfBlockLine(content, s)} :
                   \A rest \in {Drop(content, p + Len(task[i].replace))} :
                      /\ Take(disk[files[i]], p) = Take(content, p)
                      /\ Drop(disk[files[i]], p) = header \o Separator(rest) \o rest

\* C29: check_license returns Missing, Found or Outdated for every block and
\* every template that Formatter::new accepts: no format_file ends by an index
\* out of the bounds of the template's lines.
C29_CheckLicenseReturns ==
    \A i \in DOMAIN task :
       /\ task[i].err # "index"
       /\ task[i].pc \in {"classified", "read", "truncated", "done"}
          => task[i].res \in {"Missing", "Found", "Outdated"}

\* the fix of entry i has failed after the open of the file
FixFailed(i) == task[i].pc = "panicked" /\ task[i].err \in {"split_off", "find"}

\* C30: a fix that fails leaves the file as it was.
C30_FailedFixKeepsContent ==
    \A i \in DOMAIN task :
       FixFailed(i) => disk[files[i]] = ContentRead(i)

====
